---- MODULE Spec2Model ----
(***************************************************************************)
(* The self-healing execution engine of agentic-ai: the orchestrator       *)
(* (src/main.py, AgenticExecutor and CodeMerger) and the repair controller *)
(* with its sandbox executor (src/scripts/code_executor.py, CodeExecutor). *)
(* Spec is the agent serving requests; SpecJson applies                    *)
(* JSONExtractor.extract_json (src/scripts/tools.py) to a reply;           *)
(* SpecSandbox runs _execute_code step by step with its temporary file;    *)
(* SpecTrail and SpecFixContext follow a repair chain's fix_history and    *)
(* the revision prompts built from it; SpecScan applies _extract_context   *)
(* to a program output; and SpecClean applies _clean_code to a reply.      *)
(*                                                                         *)
(* Text is modelled structurally.  A source text is a sequence of lines,   *)
(* a line is a record [ind, txt]: ind says whether the line starts with    *)
(* whitespace, txt is the stripped line.  A program output is a sequence   *)
(* of lines, each a sequence of tokens.  An error text is a sequence of    *)
(* message parts; "error += ..." appends a part.                           *)
(*                                                                         *)
(* The language model and the child process are the environment: their     *)
(* replies and outcomes are drawn from the small sets below.               *)
(***************************************************************************)
EXTENDS Integers, Sequences, FiniteSets, TLC

VARIABLES
    pc,             \* position of the single thread of control
    context,        \* AgenticExecutor.context
    task_results,   \* AgenticExecutor.task_results
    tasks,          \* _execute_sequential: tasks
    task_i,         \* _execute_sequential: the loop index i
    final_code,     \* _finalize_sequential_execution: final_code
    response,       \* the dict AgenticExecutor.execute returned last
    max_fix_depth,  \* CodeExecutor.max_fix_depth
    fix_history,    \* CodeExecutor.fix_history
    code_hashes,    \* CodeExecutor.code_hashes
    code,           \* _execute_with_recursive_fixes: code
    depth,          \* _execute_with_recursive_fixes: depth
    result,         \* _execute_with_recursive_fixes: result / the dict it returns
    log,            \* history: the sandbox runs and model calls of the current request
    json_pc,        \* JSONExtractor.extract_json: called or returned
    json_text,      \* JSONExtractor.extract_json: raw_text
    json_result,    \* JSONExtractor.extract_json: the value returned
    sandbox_pc,     \* CodeExecutor._execute_code: position
    temp_files,     \* the temporary files that exist on disk
    temp_file,      \* CodeExecutor._execute_code: temp_file
    sandbox_runs,   \* the number of calls of _execute_code so far
    sandbox_result, \* CodeExecutor._execute_code: the dict returned last
    sandbox_outcome, \* history: what subprocess.run did in the last call
    repair_pc,      \* a repair chain of its own: position
    repair_depth,   \* _execute_with_recursive_fixes: depth
    repair_history, \* CodeExecutor.fix_history
    repair_prompt,  \* _generate_recursive_fix: the prompt built last
    scan_pc,        \* AgenticExecutor._extract_context: called or returned
    scan_output,    \* _extract_context: output
    scan_before,    \* AgenticExecutor.context when _extract_context is called
    scan_context,   \* AgenticExecutor.context
    clean_pc,       \* CodeExecutor._clean_code: called or returned
    clean_reply,    \* _clean_code: code, the reply of the model
    clean_result    \* _clean_code: the text returned

json_vars == <<json_pc, json_text, json_result>>
sandbox_vars ==
    <<sandbox_pc, temp_files, temp_file, sandbox_runs, sandbox_result, sandbox_outcome>>

agent_vars == <<pc, context, task_results, tasks, task_i, final_code, response,
                max_fix_depth, fix_history, code_hashes, code, depth, result, log>>

repair_vars == <<repair_pc, repair_depth, repair_history, repair_prompt>>
scan_vars == <<scan_pc, scan_output, scan_before, scan_context>>
clean_vars == <<clean_pc, clean_reply, clean_result>>

vars == <<agent_vars, json_vars, sandbox_vars, repair_vars, scan_vars, clean_vars>>

\* the variables each specification leaves alone
outside_agent == <<json_vars, sandbox_vars, repair_vars, scan_vars, clean_vars>>
outside_json == <<agent_vars, sandbox_vars, repair_vars, scan_vars, clean_vars>>
outside_sandbox == <<agent_vars, json_vars, repair_vars, scan_vars, clean_vars>>
outside_repair == <<agent_vars, json_vars, sandbox_vars, scan_vars, clean_vars>>
outside_scan == <<agent_vars, json_vars, sandbox_vars, repair_vars, clean_vars>>
outside_clean == <<agent_vars, json_vars, sandbox_vars, repair_vars, scan_vars>>

orch_vars == <<context, task_results, tasks, task_i, final_code, response>>
exec_vars == <<max_fix_depth, fix_history, code_hashes, code, depth, result>>

----------------------------------------------------------------------------
(* Bounds of the model *)

MaxTasks == 2

----------------------------------------------------------------------------
(* Config (src/scripts/config.py) *)

MAX_FIX_DEPTH == 5
MAX_FIX_DEPTH_FAST == 2
MAX_FIX_DEPTH_DISABLED == 1

\* the values CodeExecutor.__init__ can read from Config.MAX_FIX_DEPTH
MaxFixDepths == {MAX_FIX_DEPTH_DISABLED, MAX_FIX_DEPTH_FAST, MAX_FIX_DEPTH}

TIMEOUT == 300000000

HISTORY_LIMIT == 10

----------------------------------------------------------------------------
(* Text *)

Ln(t) == [ind |-> FALSE, txt |-> t]
LnInd(t) == [ind |-> TRUE, txt |-> t]

EmptyCode == <<>>
CodeA == <<Ln("x = 1")>>
CodeAInd == <<LnInd("x = 1")>>
CodeB == <<Ln("y = 2")>>
CodeCall == <<Ln("foo()")>>

\* what _clean_code can hand back for a non-empty cleaned reply
Codes == {CodeA, CodeAInd, CodeB}

\* the same for the code of one task, with a text in which extract_code
\* recognizes nothing
TaskCodes == {CodeA, CodeB, CodeCall}

\* str.strip() of a text whose lines are non-blank: the first line loses its
\* leading whitespace
Strip(text) ==
    IF Len(text) = 0 THEN text
    ELSE <<[ind |-> FALSE, txt |-> text[1].txt]>> \o Tail(text)

\* hashlib.md5(new_code.strip().encode()).hexdigest(): md5 is taken to be
\* collision-free on the texts of the model, so the digest is the stripped text
md5_of_stripped(new_code) == Strip(new_code)

----------------------------------------------------------------------------
(* Text Extractor: CodeExtractor (src/scripts/tools.py) *)

\* a line that is a fence opening a python block, and a bare fence line
FencePy == "FENCE python"
Fence == "FENCE"

\* the stripped lines that contain one of python_indicators ('=' here)
looks_like_python_indicator(txt) == txt \in {"x = 1", "y = 2"}

\* CodeExtractor._looks_like_python
looks_like_python(text) ==
    \E i \in 1..Len(text) : looks_like_python_indicator(text[i].txt)

\* CodeExtractor._looks_like_python_line: not an explanation line, and one of
\* python_patterns matches (\w+\s*= here)
looks_like_python_line(txt) ==
    /\ txt \notin {"Here is the merged code"}
    /\ txt \in {"x = 1", "y = 2"}

IsFence(ln) == ln.txt \in {FencePy, Fence}

\* the least index >= from whose line satisfies the test, 0 when there is none
RECURSIVE FirstFence(_, _, _)
FirstFence(text, from, pyOnly) ==
    IF from > Len(text) THEN 0
    ELSE IF (IF pyOnly THEN text[from].txt = FencePy ELSE IsFence(text[from]))
         THEN from
         ELSE FirstFence(text, from + 1, pyOnly)

\* CodeExtractor._extract_from_python_blocks: matches[0].strip() or None
extract_from_python_blocks(text) ==
    LET i == FirstFence(text, 1, TRUE)
        j == IF i = 0 THEN 0 ELSE FirstFence(text, i + 1, FALSE)
    IN  IF i = 0 \/ j = 0 THEN EmptyCode
        ELSE Strip(SubSeq(text, i + 1, j - 1))

\* CodeExtractor._extract_from_code_blocks: the first fence-to-fence span, taken
\* pairwise from the left, whose content looks like Python
RECURSIVE extract_from_code_blocks_from(_, _)
extract_from_code_blocks_from(text, from) ==
    LET i == FirstFence(text, from, FALSE)
        j == IF i = 0 THEN 0 ELSE FirstFence(text, i + 1, FALSE)
        lead == IF i # 0 /\ text[i].txt = FencePy THEN <<Ln("python")>> ELSE <<>>
        cleaned == Strip(lead \o SubSeq(text, i + 1, j - 1))
    IN  IF i = 0 \/ j = 0 THEN EmptyCode
        ELSE IF looks_like_python(cleaned) THEN cleaned
        ELSE extract_from_code_blocks_from(text, j + 1)

extract_from_code_blocks(text) == extract_from_code_blocks_from(text, 1)

\* CodeExtractor._extract_code_lines (the texts of the model hold no blank line)
extract_code_lines(text) ==
    SelectSeq(text, LAMBDA ln : looks_like_python_line(ln.txt))

\* CodeExtractor._return_as_is
return_as_is(text) == IF looks_like_python(text) THEN text ELSE EmptyCode

\* CodeExtractor.extract_code; None is rendered as the empty text, which is
\* what both callers make of it ("or ''")
extract_code(raw_text) ==
    IF Len(raw_text) = 0 THEN EmptyCode
    ELSE IF Len(extract_from_python_blocks(raw_text)) > 0
         THEN Strip(extract_from_python_blocks(raw_text))
    ELSE IF Len(extract_from_code_blocks(raw_text)) > 0
         THEN Strip(extract_from_code_blocks(raw_text))
    ELSE IF Len(extract_code_lines(raw_text)) > 0
         THEN Strip(extract_code_lines(raw_text))
    ELSE IF Len(return_as_is(raw_text)) > 0
         THEN Strip(return_as_is(raw_text))
    ELSE EmptyCode

----------------------------------------------------------------------------
(* Text Extractor: JSONExtractor (src/scripts/tools.py)

   A reply is a sequence of tokens.  A prose line and a fence line are one
   token each and stand on lines of their own; the JSON text is on one line
   and is made of brackets, commas, scalars and member lists.  A member list
   stands for the well-formed "key": value pairs of one record, which hold
   neither a bracket nor one of the phrases and patterns the repairs of
   _extract_and_fix_json look for.  Arrays are not nested, and there is no
   inline backtick. *)

MaxElems == 2

FenceJson == "FENCE json"
Prose == "Here is the JSON:"
Whitespace == " "
Members == {"description:a goal:b", "description:c goal:d"}
Scalars == {"42"}

\* the parsed values; JNone is Python's None
JNone == [kind |-> "none"]
JList(items) == [kind |-> "list", items |-> items]
JObject(members) == [kind |-> "object", members |-> members]
JScalar(s) == [kind |-> "scalar", value |-> s]

\* the least index >= from of a token of the set, 0 when there is none
RECURSIVE FirstToken(_, _, _)
FirstToken(text, from, toks) ==
    IF from > Len(text) THEN 0
    ELSE IF text[from] \in toks THEN from
    ELSE FirstToken(text, from + 1, toks)

\* json.loads of a text that is not an array; JNone when it raises
loads_element(text) ==
    IF Len(text) = 1 /\ text[1] \in Scalars THEN JScalar(text[1])
    ELSE IF text = <<"{", "}">> THEN JObject("")
    ELSE IF Len(text) = 3 /\ text[1] = "{" /\ text[2] \in Members /\ text[3] = "}"
         THEN JObject(text[2])
    ELSE JNone

\* the elements of an array, separated by commas; ok is false when one of
\* them does not parse (an empty one, after a trailing comma, included)
RECURSIVE loads_items(_)
loads_items(text) ==
    LET c == FirstToken(text, 1, {","})
        v == loads_element(IF c = 0 THEN text ELSE SubSeq(text, 1, c - 1))
    IN  IF v = JNone THEN [ok |-> FALSE, items |-> <<>>]
        ELSE IF c = 0 THEN [ok |-> TRUE, items |-> <<v>>]
        ELSE LET rest == loads_items(SubSeq(text, c + 1, Len(text)))
             IN  [ok |-> rest.ok, items |-> <<v>> \o rest.items]

\* json.loads; JNone when it raises JSONDecodeError
json_loads(text) ==
    IF Len(text) >= 2 /\ text[1] = "[" /\ text[Len(text)] = "]"
    THEN IF Len(text) = 2 THEN JList(<<>>)
         ELSE LET r == loads_items(SubSeq(text, 2, Len(text) - 1))
              IN  IF r.ok THEN JList(r.items) ELSE JNone
    ELSE loads_element(text)

\* one pattern of _extract_from_code_blocks: the fenced spans from the left
\* (re.findall), the first whose content starts with a bracket and parses.
\* The closing fence is the next one of either kind; after an opening json
\* fence matched by the plain pattern the content starts with "json".
RECURSIVE code_blocks_from(_, _, _)
code_blocks_from(text, from, openers) ==
    LET i == FirstToken(text, from, openers)
        j == IF i = 0 THEN 0 ELSE FirstToken(text, i + 1, {FenceJson, Fence})
        cleaned == SubSeq(text, i + 1, j - 1)
        v == IF /\ Len(cleaned) > 0
                /\ cleaned[1] \in {"{", "["}
                /\ (text[i] = FenceJson => openers = {FenceJson})
             THEN json_loads(cleaned) ELSE JNone
    IN  IF i = 0 \/ j = 0 THEN JNone
        ELSE IF v # JNone THEN v
        ELSE code_blocks_from(text, j + 1, openers)

\* JSONExtractor._extract_from_code_blocks: the json-fence pattern, then the
\* plain-fence pattern; the backtick pattern finds, in a text without inline
\* backticks, only the contents the plain-fence pattern has tried
json_extract_from_code_blocks(text) ==
    LET json_blocks == code_blocks_from(text, 1, {FenceJson})
    IN  IF json_blocks # JNone THEN json_blocks
        ELSE code_blocks_from(text, 1, {FenceJson, Fence})

\* the loop of _extract_from_brackets: the index where bracket_count comes
\* back to 0, 0 when it never does
RECURSIVE matching_end(_, _, _, _, _)
matching_end(text, i, bracket_count, start_char, end_char) ==
    IF i > Len(text) THEN 0
    ELSE LET count == IF text[i] = start_char THEN bracket_count + 1
                      ELSE IF text[i] = end_char THEN bracket_count - 1
                      ELSE bracket_count
         IN  IF text[i] = end_char /\ count = 0 THEN i
             ELSE matching_end(text, i + 1, count, start_char, end_char)

\* one pass of the outer loop of _extract_from_brackets
extract_bracket_span(text, start_char, end_char) ==
    LET start_idx == FirstToken(text, 1, {start_char})
        end_idx == IF start_idx = 0 THEN 0
                   ELSE matching_end(text, start_idx, 0, start_char, end_char)
    IN  IF start_idx = 0 \/ end_idx = 0 THEN JNone
        ELSE json_loads(SubSeq(text, start_idx, end_idx))

\* JSONExtractor._extract_from_brackets: the span of the first '{' is tried
\* before the span of the first '['
extract_from_brackets(text) ==
    LET object == extract_bracket_span(text, "{", "}")
    IN  IF object # JNone THEN object
        ELSE extract_bracket_span(text, "[", "]")

\* prefixes_to_remove: on the texts of the model the four substitutions leave
\* the text from its first opening bracket on, and nothing when there is none
\* (the last pattern removes every character that is not '{' or '[')
remove_prefixes(text) ==
    LET b == FirstToken(text, 1, {"{", "["})
    IN  IF b = 0 THEN <<>> ELSE SubSeq(text, b, Len(text))

\* the greatest index of a closing bracket, 0 when there is none
LastClosing(text) ==
    IF \E i \in 1..Len(text) : text[i] \in {"}", "]"}
    THEN CHOOSE i \in 1..Len(text) :
             /\ text[i] \in {"}", "]"}
             /\ \A k \in (i + 1)..Len(text) : text[k] \notin {"}", "]"}
    ELSE 0

\* suffixes_to_remove: a fence goes with the rest of its line, then what
\* follows the last closing bracket of the line goes (all of the line when it
\* holds no closing bracket)
remove_suffixes(text) ==
    LET unfenced == SelectSeq(text, LAMBDA t : t \notin {FenceJson, Fence})
    IN  SubSeq(unfenced, 1, LastClosing(unfenced))

\* the first two fixes: a comma right before a closing bracket goes; the key
\* and quote fixes change nothing in a well-formed member list
RECURSIVE remove_trailing_commas(_)
remove_trailing_commas(text) ==
    IF Len(text) = 0 THEN text
    ELSE IF Len(text) >= 2 /\ text[1] = "," /\ text[2] \in {"}", "]"}
    THEN remove_trailing_commas(Tail(text))
    ELSE <<text[1]>> \o remove_trailing_commas(Tail(text))

\* JSONExtractor._extract_and_fix_json
extract_and_fix_json(text) ==
    json_loads(remove_trailing_commas(remove_suffixes(remove_prefixes(text))))

\* JSONExtractor._parse_direct
parse_direct(text) == json_loads(text)

\* "not raw_text or not raw_text.strip()"
is_blank(text) == \A i \in 1..Len(text) : text[i] = Whitespace

\* variant of extract_json: the direct parse is tried first
extract_json_direct_first(text) ==
    IF is_blank(text) THEN JNone
    ELSE IF parse_direct(text) # JNone THEN parse_direct(text)
    ELSE IF json_extract_from_code_blocks(text) # JNone
         THEN json_extract_from_code_blocks(text)
    ELSE IF extract_from_brackets(text) # JNone THEN extract_from_brackets(text)
    ELSE extract_and_fix_json(text)

\* JSONExtractor.extract_json: the strategies in their order, the first result
\* that is not None; no strategy raises, each catches what json.loads raises
extract_json(text) ==
    IF is_blank(text) THEN JNone
    ELSE IF json_extract_from_code_blocks(text) # JNone
         THEN json_extract_from_code_blocks(text)
    ELSE IF extract_from_brackets(text) # JNone THEN extract_from_brackets(text)
    ELSE IF extract_and_fix_json(text) # JNone THEN extract_and_fix_json(text)
    ELSE parse_direct(text)

(* The replies extract_json is applied to *)

\* one element of an array: a record or a scalar
Elements == {<<"{", m, "}">> : m \in Members} \cup {<<s>> : s \in Scalars}
Records == {<<"{", m, "}">> : m \in Members}

ElementSeqs == UNION {[1..n -> Elements] : n \in 0..MaxElems}
RecordSeqs == UNION {[1..n -> Records] : n \in 1..MaxElems}

\* the elements, separated by commas
RECURSIVE Join(_)
Join(elems) ==
    IF Len(elems) = 0 THEN <<>>
    ELSE IF Len(elems) = 1 THEN elems[1]
    ELSE elems[1] \o <<",">> \o Join(Tail(elems))

\* the text of an array, with or without a comma before the closing bracket,
\* with or without the closing bracket
RenderArray(elems, trailing, closed) ==
    <<"[">> \o Join(elems) \o (IF trailing THEN <<",">> ELSE <<>>)
            \o (IF closed THEN <<"]">> ELSE <<>>)

JsonCores ==
    {RenderArray(e, t, c) : e \in ElementSeqs, t \in BOOLEAN, c \in BOOLEAN}
    \cup Elements

Wrappings == {"bare", "json fence", "plain fence", "prose"}

Wrap(w, core) ==
    CASE w = "bare" -> core
      [] w = "json fence" -> <<FenceJson>> \o core \o <<Fence>>
      [] w = "plain fence" -> <<Fence>> \o core \o <<Fence>>
      [] w = "prose" -> <<Prose>> \o core

JsonTexts ==
    {Wrap(w, c) : w \in Wrappings, c \in JsonCores} \cup {<<>>, <<Whitespace>>}

\* the list json.loads makes of an array of records
ListOf(records) == JList([k \in 1..Len(records) |-> JObject(records[k][2])])

----------------------------------------------------------------------------
(* Sandbox Executor: CodeExecutor._execute_code *)

RESULT_MARKER == "RESULT:"
ERROR_MARKER == "EXECUTION_ERROR:"

OutPlain == << <<"done">> >>
OutResult == << <<RESULT_MARKER, "price", "=", "100">>, <<"done">> >>
OutMarker == << <<ERROR_MARKER, "NameError">> >>
\* a program that prints a result line and then raises
OutResultThenMarker ==
    << <<RESULT_MARKER, "price", "=", "100">>, <<ERROR_MARKER, "NameError">> >>

\* one part of an error text: a message and the number formatted into it
Part(t, n) == [text |-> t, arg |-> n]

StderrNone == <<>>
StderrTraceback == <<Part("Traceback", 0)>>

Outcome(kind, rc, stdout, stderr) ==
    [kind |-> kind, rc |-> rc, stdout |-> stdout, stderr |-> stderr]

\* what subprocess.run can do: return a completed process (exit code, stdout,
\* stderr), raise TimeoutExpired, or raise another exception
Outcomes ==
    { Outcome("exit", 0, OutResult, StderrNone),
      Outcome("exit", 0, OutPlain, StderrNone),
      Outcome("exit", 0, OutMarker, StderrNone),
      Outcome("exit", 1, OutMarker, StderrNone),
      Outcome("exit", 1, OutResultThenMarker, StderrNone),
      Outcome("exit", 1, OutPlain, StderrTraceback),
      Outcome("timeout", 0, <<>>, StderrNone),
      Outcome("oserror", 0, <<>>, StderrNone) }

\* a program that writes a warning to stderr and then raises
StderrWarning == <<Part("UserWarning", 0)>>

\* the outcomes of the calls of _execute_code looked at on their own
SandboxOutcomes ==
    Outcomes \cup {Outcome("exit", 1, OutMarker, StderrWarning)}

HasToken(line, tok) == \E i \in 1..Len(line) : line[i] = tok

\* "EXECUTION_ERROR:" in process.stdout
HasErrorMarker(stdout) == \E i \in 1..Len(stdout) : HasToken(stdout[i], ERROR_MARKER)

\* error_lines[0].replace('EXECUTION_ERROR: ', ''): the first line holding the
\* marker, without the marker
FirstErrorLine(stdout) ==
    LET i == CHOOSE k \in 1..Len(stdout) :
                 /\ HasToken(stdout[k], ERROR_MARKER)
                 /\ \A m \in 1..(k - 1) : ~HasToken(stdout[m], ERROR_MARKER)
        rest == SelectSeq(stdout[i], LAMBDA t : t # ERROR_MARKER)
    IN  [k \in 1..Len(rest) |-> Part(rest[k], 0)]

execute_code(outcome) ==
    CASE outcome.kind = "exit" ->
            [success |-> outcome.rc = 0 /\ ~HasErrorMarker(outcome.stdout),
             output  |-> outcome.stdout,
             error   |-> IF HasErrorMarker(outcome.stdout) /\ outcome.stderr = <<>>
                         THEN FirstErrorLine(outcome.stdout)
                         ELSE outcome.stderr,
             timeout |-> FALSE]
      [] outcome.kind = "timeout" ->
            [success |-> FALSE, output |-> <<>>,
             error |-> <<Part("Code execution timed out after", TIMEOUT)>>,
             timeout |-> TRUE]
      [] outcome.kind = "oserror" ->
            [success |-> FALSE, output |-> <<>>,
             error |-> <<Part("Subprocess execution error", 0)>>,
             timeout |-> FALSE]

----------------------------------------------------------------------------
(* Context Store: AgenticExecutor._extract_context *)

\* the least index of tok in line (tok occurs in line)
IndexOf(line, tok) ==
    CHOOSE i \in 1..Len(line) :
        line[i] = tok /\ \A k \in 1..(i - 1) : line[k] # tok

\* str.strip() on a sequence of tokens: the whitespace at both ends goes
strip_tokens(toks) ==
    LET solid == {i \in 1..Len(toks) : toks[i] # Whitespace}
    IN  IF solid = {} THEN <<>>
        ELSE SubSeq(toks, CHOOSE i \in solid : \A k \in solid : i <= k,
                          CHOOSE i \in solid : \A k \in solid : i >= k)

\* variant of lines 333-335: the name and the value are taken as they stand
\* on both sides of the '='
extract_context_line_untrimmed(line, ctx) ==
    IF ~(HasToken(line, RESULT_MARKER) /\ HasToken(line, "=")) THEN ctx
    ELSE LET var_part == SubSeq(line, IndexOf(line, RESULT_MARKER) + 1, Len(line))
         IN  IF ~HasToken(var_part, "=") THEN ctx
             ELSE LET e == IndexOf(var_part, "=")
                      var_name == SubSeq(var_part, 1, e - 1)
                      var_value == SubSeq(var_part, e + 1, Len(var_part))
                  IN  [n \in DOMAIN ctx \cup {var_name} |->
                          IF n = var_name THEN var_value ELSE ctx[n]]

\* one line of the loop: the assignment when the line holds the marker and an
\* '=' after it; the IndexError of a line whose '=' precedes the marker is
\* swallowed by the bare except
extract_context_line(line, ctx) ==
    IF ~(HasToken(line, RESULT_MARKER) /\ HasToken(line, "=")) THEN ctx
    ELSE LET var_part ==
                 strip_tokens(SubSeq(line, IndexOf(line, RESULT_MARKER) + 1, Len(line)))
         IN  IF ~HasToken(var_part, "=") THEN ctx
             ELSE LET e == IndexOf(var_part, "=")
                      var_name == strip_tokens(SubSeq(var_part, 1, e - 1))
                      var_value == strip_tokens(SubSeq(var_part, e + 1, Len(var_part)))
                  IN  [n \in DOMAIN ctx \cup {var_name} |->
                          IF n = var_name THEN var_value ELSE ctx[n]]

RECURSIVE extract_context(_, _)
extract_context(output, ctx) ==
    IF Len(output) = 0 THEN ctx
    ELSE extract_context(Tail(output), extract_context_line(Head(output), ctx))

----------------------------------------------------------------------------
(* Repair Controller: CodeExecutor *)

\* variant of line 36: the result does not take the code that was run
result_update_without_code(r, c, d) ==
    [success |-> r.success, output |-> r.output, error |-> r.error,
     timeout |-> r.timeout, code |-> EmptyCode, fix_attempts |-> d]

\* result.update({'code': code, 'fix_attempts': depth})
result_update(r, c, d) ==
    [success |-> r.success, output |-> r.output, error |-> r.error,
     timeout |-> r.timeout, code |-> c, fix_attempts |-> d]

create_error_result(error_msg) ==
    [success |-> FALSE, output |-> <<>>, error |-> <<Part(error_msg, 0)>>,
     code |-> EmptyCode, fix_attempts |-> 0]

\* result.get('timeout', False)
get_timeout(r) == IF "timeout" \in DOMAIN r THEN r.timeout ELSE FALSE

\* variants of _should_attempt_fix: the bound taken inclusively, the timeout
\* not looked at, the depth not looked at
should_attempt_fix_inclusive(d, r, max_depth) == d <= max_depth /\ ~get_timeout(r)
should_attempt_fix_retries_timeout(d, r, max_depth) == d < max_depth
should_attempt_fix_unbounded(d, r, max_depth) == ~get_timeout(r)

should_attempt_fix(d, r, max_depth) == d < max_depth /\ ~get_timeout(r)

\* variant of _handle_max_depth_reached: the annotation on every result
handle_max_depth_reached_always(r, d, max_depth) ==
    [r EXCEPT !.error =
         Append(@, Part("Reached maximum recursive fix depth", max_depth))]

handle_max_depth_reached(r, d, max_depth) ==
    IF d >= max_depth
    THEN [r EXCEPT !.error =
             Append(@, Part("Reached maximum recursive fix depth", max_depth))]
    ELSE r

\* variant of _is_duplicate_fix: the new hash is not remembered
is_duplicate_fix_forgets(new_code, hashes) ==
    [dup |-> md5_of_stripped(new_code) \in hashes, hashes |-> hashes]

\* _is_duplicate_fix: the answer, and code_hashes after the call
is_duplicate_fix(new_code, hashes) ==
    IF md5_of_stripped(new_code) \in hashes
    THEN [dup |-> TRUE, hashes |-> hashes]
    ELSE [dup |-> FALSE, hashes |-> hashes \cup {md5_of_stripped(new_code)}]

\* variant of _is_valid_fix: a revision equal to the code just tried passes
is_valid_fix_accepts_identical(fixed_code, original_code, hashes) ==
    IF fixed_code = EmptyCode
    THEN [valid |-> FALSE, hashes |-> hashes]
    ELSE [valid |-> md5_of_stripped(fixed_code) \notin hashes,
          hashes |-> hashes \cup {md5_of_stripped(fixed_code)}]

\* _is_valid_fix: the answer, and code_hashes after the call
is_valid_fix(fixed_code, original_code, hashes) ==
    IF fixed_code = EmptyCode \/ fixed_code = original_code
    THEN [valid |-> FALSE, hashes |-> hashes]
    ELSE LET d == is_duplicate_fix(fixed_code, hashes)
         IN  [valid |-> ~d.dup, hashes |-> d.hashes]

handle_invalid_fix(r, d) ==
    [r EXCEPT !.error = Append(@, Part("Recursive fixing stopped at depth", d))]

\* variant of _record_fix_attempt: nothing is evicted
record_fix_attempt_keeps_all(history, d, original_code, fixed_code, error) ==
    Append(history, [depth |-> d, original_code |-> original_code,
                     fixed_code |-> fixed_code, error |-> error])

\* variant of _record_fix_attempt: nothing is appended
record_fix_attempt_lost(history, d, original_code, fixed_code, error) == history

\* _record_fix_attempt: fix_history after the call
record_fix_attempt(history, d, original_code, fixed_code, error) ==
    LET appended == Append(history,
                        [depth |-> d, original_code |-> original_code,
                         fixed_code |-> fixed_code, error |-> error])
    IN  IF Len(appended) > HISTORY_LIMIT THEN Tail(appended) ELSE appended

----------------------------------------------------------------------------
(* History of the calls that leave the process *)

NoResult == [none |-> TRUE]

\* one call: who made it, the code it was about, the depth or task index it
\* was made at, the text the model replied with, what the execution returned
Event(e, c, d, reply, out) ==
    [ev |-> e, code |-> c, depth |-> d, reply |-> reply, out |-> out]

\* subprocess.run inside _execute_code, reached from the repair loop
SandboxRun(c, d, out) == Event("exec", c, d, EmptyCode, out)
\* subprocess.run inside _execute_code, reached from the orchestrator
FinalRun(c, out) == Event("final_exec", c, 0, EmptyCode, out)
\* ollama.chat, by caller
ModelCall(caller, c, d, reply) == Event(caller, c, d, reply, NoResult)
\* ollama.chat asked to generate code, with the prompt it was given
PromptCall(caller, prompt, d, reply) ==
    [ev |-> caller, code |-> EmptyCode, depth |-> d, reply |-> reply,
     out |-> NoResult, prompt |-> prompt]
\* ollama.chat raising an exception
ModelCallRaised(caller, c, d) == Event(caller, c, d, EmptyCode, [raised |-> TRUE])

----------------------------------------------------------------------------
(* The state after AgenticExecutor() *)

InitAgent ==
    /\ pc = "idle"
    /\ context = <<>>
    /\ task_results = <<>>
    /\ tasks = <<>>
    /\ task_i = 1
    /\ final_code = EmptyCode
    /\ response = NoResult
    /\ max_fix_depth \in MaxFixDepths
    /\ fix_history = <<>>
    /\ code_hashes = {}
    /\ code = EmptyCode
    /\ depth = 0
    /\ result = NoResult
    /\ log = <<>>

\* extract_json is not being called
JsonIdle ==
    /\ json_pc = "idle"
    /\ json_text = <<>>
    /\ json_result = JNone

\* _execute_code has not been called, and no temporary file exists
SandboxIdle ==
    /\ sandbox_pc = "idle"
    /\ temp_files = {}
    /\ temp_file = 0
    /\ sandbox_runs = 0
    /\ sandbox_result = NoResult
    /\ sandbox_outcome = NoResult

\* no repair chain of its own is running
RepairIdle ==
    /\ repair_pc = "idle"
    /\ repair_depth = 0
    /\ repair_history = <<>>
    /\ repair_prompt = NoResult

\* _extract_context is not being called
ScanIdle ==
    /\ scan_pc = "idle"
    /\ scan_output = <<>>
    /\ scan_before = <<>>
    /\ scan_context = <<>>

\* _clean_code is not being called
CleanIdle ==
    /\ clean_pc = "idle"
    /\ clean_reply = <<>>
    /\ clean_result = <<>>

Init == InitAgent /\ JsonIdle /\ SandboxIdle /\ RepairIdle /\ ScanIdle /\ CleanIdle

----------------------------------------------------------------------------
(* AgenticExecutor.execute up to the choice of the strategy *)

Execute ==
    /\ pc \in {"idle", "returned"}
    /\ task_results' = <<>>
    /\ \E intent \in {"code", "chat"}, strategy \in {"unified", "sequential"} :
          IF intent = "chat"
          THEN /\ response' = [success |-> TRUE, type |-> "chat"]
               /\ log' = <<ModelCall("llm_intent", EmptyCode, 0, EmptyCode),
                           ModelCall("llm_chat", EmptyCode, 0, EmptyCode)>>
               /\ pc' = "returned"
          ELSE /\ response' = NoResult
               /\ log' = <<ModelCall("llm_intent", EmptyCode, 0, EmptyCode),
                           ModelCall("llm_strategy", EmptyCode, 0, EmptyCode)>>
               /\ pc' = strategy
    /\ UNCHANGED <<context, tasks, task_i, final_code>>
    /\ UNCHANGED exec_vars
    /\ UNCHANGED outside_agent

\* _create_unified_prompt: the parts of the prompt that vary, which are the
\* assignments inlined for the variables of the context store
create_unified_prompt(ctx) == [context_code |-> ctx]

\* variant of line 24: an empty initial code is not taken as a failure
generation_failed_never(initial_code) == FALSE

\* "if not initial_code" of line 24
generation_failed(initial_code) == initial_code = EmptyCode

(* _execute_unified: the prompt, then CodeExecutor.generate_and_execute up to
   the first execution *)
GenerateAndExecute ==
    /\ pc = "unified"
    /\ fix_history' = <<>>
    /\ code_hashes' = {}
    /\ \E initial_code \in Codes \cup {EmptyCode} :
          /\ log' = Append(log, PromptCall("llm_generate", create_unified_prompt(context),
                                           0, initial_code))
          /\ IF generation_failed(initial_code)
                THEN /\ result' = create_error_result("Failed to generate initial code")
                     /\ pc' = "unified_return"
                     /\ UNCHANGED <<code, depth>>
                ELSE /\ code' = initial_code
                     /\ depth' = 0
                     /\ pc' = "executing"
                     /\ UNCHANGED result
    /\ UNCHANGED max_fix_depth
    /\ UNCHANGED orch_vars
    /\ UNCHANGED outside_agent

\* variant of line 38: a successful result is not returned
succeeded_never(r) == FALSE

\* "if result['success']" of line 38
succeeded(r) == r.success

(* _execute_with_recursive_fixes, lines 31-43: one execution and the decision
   to return or to ask for a fix *)
ExecuteWithRecursiveFixes ==
    /\ pc = "executing"
    /\ \E outcome \in Outcomes :
          LET r == result_update(execute_code(outcome), code, depth)
          IN  /\ log' = Append(log, SandboxRun(code, depth, execute_code(outcome)))
              /\ IF succeeded(r)
                    THEN /\ result' = r
                         /\ pc' = "unified_return"
                    ELSE IF ~should_attempt_fix(depth, r, max_fix_depth)
                    THEN /\ result' = handle_max_depth_reached(r, depth, max_fix_depth)
                         /\ pc' = "unified_return"
                    ELSE /\ result' = r
                         /\ pc' = "fixing"
    /\ UNCHANGED <<max_fix_depth, fix_history, code_hashes, code, depth>>
    /\ UNCHANGED orch_vars
    /\ UNCHANGED outside_agent

(* _execute_with_recursive_fixes, lines 45-57: the revision and the decision
   to stop or to recurse; a failed model call yields the empty revision *)
GenerateRecursiveFix ==
    /\ pc = "fixing"
    /\ \E fixed_code \in Codes \cup {EmptyCode} :
          LET v == is_valid_fix(fixed_code, code, code_hashes)
          IN  /\ log' = Append(log, ModelCall("llm_fix", code, depth, fixed_code))
              /\ code_hashes' = v.hashes
              /\ IF ~v.valid
                    THEN /\ result' = handle_invalid_fix(result, depth)
                         /\ pc' = "unified_return"
                         /\ UNCHANGED <<fix_history, code, depth>>
                    ELSE /\ fix_history' = record_fix_attempt(fix_history, depth, code,
                                                             fixed_code, result.error)
                         /\ code' = fixed_code
                         /\ depth' = depth + 1
                         /\ pc' = "executing"
                         /\ UNCHANGED result
    /\ UNCHANGED max_fix_depth
    /\ UNCHANGED orch_vars
    /\ UNCHANGED outside_agent

\* variant of lines 139-141 and 205-208: the context is extracted from the
\* output of a failed execution as well
context_after_execution_always(r, ctx) == extract_context(r.output, ctx)

\* lines 139-141 and 205-208: self._extract_context(output) under
\* "if result['success']"; the context store after it
context_after_execution(r, ctx) ==
    IF r.success THEN extract_context(r.output, ctx) ELSE ctx

(* _execute_unified, lines 139-145: what it makes of the result; the locals of
   the calls that have returned are gone *)
ExecuteUnifiedReturn ==
    /\ pc = "unified_return"
    /\ context' = context_after_execution(result, context)
    /\ IF result.success
       THEN response' = [success |-> TRUE, type |-> "code",
                         context |-> context', final_code |-> result.code]
       ELSE response' = [success |-> FALSE, type |-> "code",
                         error |-> <<Part("Unified execution failed:", 0)>>
                                     \o result.error]
    /\ pc' = "returned"
    /\ code' = EmptyCode /\ depth' = 0 /\ result' = NoResult
    /\ UNCHANGED <<task_results, tasks, task_i, final_code, log>>
    /\ UNCHANGED <<max_fix_depth, fix_history, code_hashes>>
    /\ UNCHANGED outside_agent

----------------------------------------------------------------------------
(* Task Decomposer: AgenticExecutor._break_down_request *)

\* the i-th record of a decomposition reply, as JSONExtractor.extract_json
\* hands it back
TaskRecord(i) ==
    [description |-> i, goal |-> i,
     context_variables |-> IF i = 1 THEN <<>> ELSE << <<"price">> >>]
\* the same record without its 'goal'
TaskRecordNoGoal(i) ==
    [description |-> i,
     context_variables |-> IF i = 1 THEN <<>> ELSE << <<"price">> >>]
\* the same record without its 'context_variables'
TaskRecordNoVars(i) == [description |-> i, goal |-> i]

\* the replies of the model, parsed: nothing extractable (None) or an empty
\* array, and arrays of 1..MaxTasks records, all complete or the last one
\* lacking a field
TaskJsons ==
    {<<>>}
    \cup {[i \in 1..n |-> TaskRecord(i)] : n \in 1..MaxTasks}
    \cup {[i \in 1..n |-> IF i = n THEN TaskRecordNoGoal(i) ELSE TaskRecord(i)] :
              n \in 1..MaxTasks}
    \cup {[i \in 1..n |-> IF i = n THEN TaskRecordNoVars(i) ELSE TaskRecord(i)] :
              n \in 1..MaxTasks}

\* task['description'] and task['goal'] raise KeyError on a record without them
RaisesKeyError(tasks_json) ==
    \E i \in 1..Len(tasks_json) :
        ~({"description", "goal"} \subseteq DOMAIN tasks_json[i])

AgenticTask(task) ==
    [description |-> task.description, goal |-> task.goal,
     context_variables |-> IF "context_variables" \in DOMAIN task
                           THEN task.context_variables ELSE <<>>]

break_down_request(tasks_json) ==
    [i \in 1..Len(tasks_json) |-> AgenticTask(tasks_json[i])]

\* what ollama.chat does when the decomposer calls it: it raises, or it
\* replies with a text extract_json makes tasks_json of
DecomposeOutcomes ==
    {[raised |-> TRUE, tasks_json |-> <<>>]}
    \cup [raised : {FALSE}, tasks_json : TaskJsons]

\* variant of lines 154-156: no fallback, the empty task list goes on to the
\* (empty) loop and the merge
empty_breakdown_pc_finalize == "finalize"

\* lines 154-156: "if not tasks: return self._execute_unified(user_request)"
empty_breakdown_pc == "unified"

(* _execute_sequential, lines 147-158: the decomposition; an exception of the
   model call or of the list construction leaves execute() uncaught *)
ExecuteSequential ==
    /\ pc = "sequential"
    /\ \E reply \in DecomposeOutcomes :
          /\ log' = IF reply.raised
                    THEN Append(log, ModelCallRaised("llm_decompose", EmptyCode, 0))
                    ELSE Append(log, ModelCall("llm_decompose", EmptyCode, 0,
                                               reply.tasks_json))
          /\ IF reply.raised \/ RaisesKeyError(reply.tasks_json)
                THEN /\ pc' = "crashed"
                     /\ UNCHANGED <<tasks, task_i>>
                ELSE IF Len(reply.tasks_json) = 0
                THEN /\ pc' = empty_breakdown_pc
                     /\ UNCHANGED <<tasks, task_i>>
                ELSE /\ tasks' = break_down_request(reply.tasks_json)
                     /\ task_i' = 1
                     /\ pc' = "task_loop"
    /\ UNCHANGED <<context, task_results, final_code, response>>
    /\ UNCHANGED exec_vars
    /\ UNCHANGED outside_agent

----------------------------------------------------------------------------
(* Orchestrator, sequential path *)

TaskResult(task, success, c, error) ==
    [task |-> task, success |-> success, code |-> c, error |-> error]

\* _generate_task_code for the code _generate_code handed back ('' also when
\* the model call failed)
generate_task_code(c) ==
    IF c = EmptyCode
    THEN [success |-> FALSE, error |-> <<Part("Failed to generate code for task", 0)>>,
          code |-> EmptyCode]
    ELSE [success |-> TRUE, error |-> <<>>, code |-> c]

\* _build_task_prompt: the part of the prompt that varies, which is the goal
\* of the task
build_task_prompt(task) == [goal |-> task.goal]

\* variant of _generate_task_code: the code of the task is run as well
task_code_calls_with_run(task, c, i) ==
    <<PromptCall("llm_generate_task", build_task_prompt(task), i, c),
      SandboxRun(c, 0, execute_code(Outcome("exit", 0, OutPlain, StderrNone)))>>

\* the calls _generate_task_code makes for one task: the model call of
\* _generate_code with the prompt of the task, and no execution
task_code_calls(task, c, i) ==
    <<PromptCall("llm_generate_task", build_task_prompt(task), i, c)>>

\* variant of lines 175-177: the loop is left at the first task whose code
\* generation fails
loop_exit_on_failure(success, i, n) == ~success \/ i = n

\* the for loop of line 161 is left after the last task, whatever the results
\* ("continue" of line 177)
loop_exit(success, i, n) == i = n

\* variant of line 161: the list is walked from its end
loop_task_reversed(task_list, i) == task_list[Len(task_list) + 1 - i]

\* "for i, task in enumerate(tasks, 1)" of line 161: the task of pass i
loop_task(task_list, i) == task_list[i]

(* _execute_sequential, lines 161-179: one pass of the loop *)
GenerateTaskCode ==
    /\ pc = "task_loop"
    /\ \E c \in TaskCodes \cup {EmptyCode} :
          LET r == generate_task_code(c)
              task == loop_task(tasks, task_i)
          IN  /\ log' = log \o task_code_calls(task, c, task_i)
              /\ task_results' =
                     Append(task_results,
                            TaskResult(task, r.success, r.code, r.error))
              /\ pc' = IF loop_exit(r.success, task_i, Len(tasks))
                       THEN "finalize" ELSE "task_loop"
    /\ task_i' = task_i + 1
    /\ UNCHANGED <<context, tasks, final_code, response>>
    /\ UNCHANGED exec_vars
    /\ UNCHANGED outside_agent

\* successful_results = [r for r in task_results if r.success]
successful_results(results) == SelectSeq(results, LAMBDA r : r.success)

\* the replies of the model to the merge prompt
ReplyFenced == <<Ln(FencePy), Ln("x = 1"), Ln("y = 2"), Ln(Fence)>>
ReplyPlainFence == <<Ln(Fence), Ln("y = 2"), Ln(Fence)>>
ReplyProse == <<Ln("Here is the merged code"), LnInd("x = 1"), Ln("foo()")>>
MergeReplies == {EmptyCode, ReplyFenced, ReplyPlainFence, ReplyProse, CodeCall}

\* what ollama.chat does when the merger calls it: it raises, or it replies
MergeOutcomes ==
    {[raised |-> TRUE, content |-> EmptyCode]}
    \cup [raised : {FALSE}, content : MergeReplies]

\* variant of lines 36-38: a single successful task is consolidated by the
\* model as well
merge_code_blocks_always_asks(results, reply) ==
    LET ok == successful_results(results)
    IN  IF Len(ok) = 0 THEN EmptyCode
        ELSE IF reply.raised THEN EmptyCode
        ELSE extract_code(Strip(reply.content))

\* CodeMerger.merge_code_blocks; reply is what ollama.chat does when called
merge_code_blocks(results, reply) ==
    LET ok == successful_results(results)
    IN  IF Len(ok) = 0 THEN EmptyCode
        ELSE IF Len(ok) = 1 THEN extract_code(ok[1].code)
        ELSE IF reply.raised THEN EmptyCode
        ELSE extract_code(Strip(reply.content))

\* whether merge_code_blocks reaches ollama.chat
merge_calls_model(results) == Len(successful_results(results)) > 1

\* variant of line 196: an empty merge result is not taken as a failure
merge_failed_never(merged) == FALSE

\* "if not final_code" of line 196
merge_failed(merged) == merged = EmptyCode

(* _finalize_sequential_execution, lines 184-200: the merge; on return the
   locals of the sequential path are gone *)
FinalizeMerge ==
    /\ pc = "finalize"
    /\ \E reply \in MergeOutcomes :
          IF Len(successful_results(task_results)) = 0
          THEN /\ response' = [success |-> FALSE, type |-> "code",
                               error |-> <<Part("No tasks generated code successfully", 0)>>]
               /\ pc' = "returned"
               /\ tasks' = <<>> /\ task_i' = 1
               /\ UNCHANGED <<final_code, log>>
          ELSE LET merged == merge_code_blocks(task_results, reply)
               IN  /\ log' = IF ~merge_calls_model(task_results) THEN log
                             ELSE IF reply.raised
                             THEN Append(log, ModelCallRaised("llm_merge", EmptyCode, 0))
                             ELSE Append(log, ModelCall("llm_merge", EmptyCode, 0,
                                                        reply.content))
                   /\ IF merge_failed(merged)
                      THEN /\ response' = [success |-> FALSE, type |-> "code",
                                           error |-> <<Part("Failed to merge code", 0)>>]
                           /\ pc' = "returned"
                           /\ tasks' = <<>> /\ task_i' = 1
                           /\ UNCHANGED final_code
                      ELSE /\ final_code' = merged
                           /\ pc' = "final_exec"
                           /\ UNCHANGED <<response, tasks, task_i>>
    /\ UNCHANGED <<context, task_results>>
    /\ UNCHANGED exec_vars
    /\ UNCHANGED outside_agent

(* _finalize_sequential_execution, lines 202-225: the one execution *)
FinalizeExecute ==
    /\ pc = "final_exec"
    /\ \E outcome \in Outcomes :
          LET execution_result == execute_code(outcome)
          IN  /\ log' = Append(log, FinalRun(final_code, execution_result))
              /\ context' = context_after_execution(execution_result, context)
              /\ IF execution_result.success
                    THEN response' = [success |-> TRUE, type |-> "code",
                                      context |-> context',
                                      final_code |-> final_code,
                                      output |-> execution_result.output]
                    ELSE response' =
                             [success |-> FALSE, type |-> "code",
                              error |-> <<Part("Final code execution failed:", 0)>>
                                          \o execution_result.error,
                              final_code |-> final_code]
    /\ pc' = "returned"
    /\ tasks' = <<>> /\ task_i' = 1 /\ final_code' = EmptyCode
    /\ UNCHANGED task_results
    /\ UNCHANGED exec_vars
    /\ UNCHANGED outside_agent

----------------------------------------------------------------------------

Next ==
    \/ Execute
    \/ GenerateAndExecute
    \/ ExecuteWithRecursiveFixes
    \/ GenerateRecursiveFix
    \/ ExecuteUnifiedReturn
    \/ ExecuteSequential
    \/ GenerateTaskCode
    \/ FinalizeMerge
    \/ FinalizeExecute

Spec == Init /\ [][Next]_vars

----------------------------------------------------------------------------
(* JSONExtractor.extract_json applied to a reply *)

InitJson ==
    /\ InitAgent
    /\ max_fix_depth = MAX_FIX_DEPTH
    /\ SandboxIdle /\ RepairIdle /\ ScanIdle /\ CleanIdle
    /\ json_pc = "called"
    /\ json_text \in JsonTexts
    /\ json_result = JNone

ExtractJson ==
    /\ json_pc = "called"
    /\ json_result' = extract_json(json_text)
    /\ json_pc' = "returned"
    /\ UNCHANGED <<json_text, outside_json>>

NextJson == ExtractJson

SpecJson == InitJson /\ [][NextJson]_vars

----------------------------------------------------------------------------
(* CodeExecutor._execute_code step by step, with the temporary file *)

MaxSandboxRuns == 3

InitSandbox ==
    /\ InitAgent
    /\ max_fix_depth = MAX_FIX_DEPTH
    /\ JsonIdle /\ RepairIdle /\ ScanIdle /\ CleanIdle
    /\ SandboxIdle

(* lines 199-201: tempfile.NamedTemporaryFile(delete=False) creates a file
   with a fresh name; f.write can raise (the disk is full), and then the
   exception leaves _execute_code with the file on disk *)
CreateTempFile ==
    /\ sandbox_pc \in {"idle", "returned", "raised"}
    /\ sandbox_runs < MaxSandboxRuns
    /\ sandbox_runs' = sandbox_runs + 1
    /\ temp_files' = temp_files \cup {sandbox_runs'}
    /\ \E written \in BOOLEAN :
          IF written
          THEN /\ temp_file' = sandbox_runs'
               /\ sandbox_pc' = "run"
          ELSE /\ temp_file' = 0
               /\ sandbox_pc' = "raised"
    /\ sandbox_result' = NoResult
    /\ sandbox_outcome' = NoResult
    /\ UNCHANGED outside_sandbox

(* lines 203-241: subprocess.run and the dict made of its outcome; the child
   runs arbitrary code, which can remove the file it was started from *)
RunSubprocess ==
    /\ sandbox_pc = "run"
    /\ \E outcome \in SandboxOutcomes, removed \in BOOLEAN :
          /\ sandbox_result' = execute_code(outcome)
          /\ sandbox_outcome' = outcome
          /\ temp_files' = IF removed /\ outcome.kind = "exit"
                           THEN temp_files \ {temp_file} ELSE temp_files
    /\ sandbox_pc' = "finally"
    /\ UNCHANGED <<temp_file, sandbox_runs, outside_sandbox>>

(* lines 242-243 and 304-309: finally: self._safe_cleanup(temp_file);
   os.unlink removes the file or raises OSError, which is passed over *)
SafeCleanup ==
    /\ sandbox_pc = "finally"
    /\ IF temp_file \in temp_files
       THEN \E unlinked \in BOOLEAN :
                temp_files' = IF unlinked THEN temp_files \ {temp_file}
                              ELSE temp_files
       ELSE temp_files' = temp_files
    /\ sandbox_pc' = "returned"
    /\ UNCHANGED <<temp_file, sandbox_runs, sandbox_result, sandbox_outcome, outside_sandbox>>

NextSandbox ==
    \/ CreateTempFile
    \/ RunSubprocess
    \/ SafeCleanup

SpecSandbox == InitSandbox /\ [][NextSandbox]_vars

----------------------------------------------------------------------------
(* The fix trail and the revision request: _record_fix_attempt,
   _build_fix_context and _generate_recursive_fix in a repair chain whose
   executions all fail, under a CodeExecutor whose max_fix_depth is the bound
   of the specification *)

MaxTrailDepth == 12
MaxContextDepth == 5

PREVIEW_LIMIT == 200
RECENT_ATTEMPTS == 3

\* an error text of n characters
ErrorText(n) ==
    [i \in 1..n |-> IF i = 1 THEN "E" ELSE IF i = n THEN "$" ELSE "x"]

TrailErrors == {ErrorText(3), ErrorText(4)}
ContextErrors ==
    {ErrorText(5), ErrorText(PREVIEW_LIMIT), ErrorText(PREVIEW_LIMIT + 1)}

\* the code executed at depth d of the chain: every revision is new
Revision(d) == [k \in 1..(d + 1) |-> Ln("x = 1")]

Ellipsis == "..."
NoPreviousAttempts == <<[text |-> "No previous attempts."]>>

\* variant of line 106: the error is cut when it has PREVIEW_LIMIT characters
error_preview_cuts_at_limit(error) ==
    IF Len(error) >= PREVIEW_LIMIT
    THEN Append(SubSeq(error, 1, PREVIEW_LIMIT - 1), Ellipsis)
    ELSE error

\* attempt['error'][:200] + "..." if len(attempt['error']) > 200 else
\* attempt['error']
error_preview(error) ==
    IF Len(error) > PREVIEW_LIMIT
    THEN Append(SubSeq(error, 1, PREVIEW_LIMIT), Ellipsis)
    ELSE error

\* self.fix_history[-3:]
recent_attempts(history) ==
    IF Len(history) <= RECENT_ATTEMPTS THEN history
    ELSE SubSeq(history, Len(history) - RECENT_ATTEMPTS + 1, Len(history))

\* _build_fix_context: the lines of the digest
build_fix_context(history) ==
    IF history = <<>> THEN NoPreviousAttempts
    ELSE LET recent == recent_attempts(history)
         IN  [k \in 1..Len(recent) |->
                 [text |-> "Attempt: Error was:",
                  attempt |-> recent[k].depth + 1,
                  error_preview |-> error_preview(recent[k].error)]]

\* _generate_recursive_fix, lines 60-87: the parts of the prompt that vary
fix_prompt(failed_code, error_message, d, history) ==
    [attempt |-> d + 1, failed_code |-> failed_code,
     error_message |-> error_message,
     fix_context |-> build_fix_context(history)]

(* generate_and_execute, lines 18-29: _reset_state, and the initial code goes
   to _execute_with_recursive_fixes *)
RepairStart ==
    /\ repair_pc \in {"idle", "returned"}
    /\ repair_history' = <<>>
    /\ repair_depth' = 0
    /\ repair_prompt' = NoResult
    /\ repair_pc' = "executing"
    /\ UNCHANGED outside_repair

(* _execute_with_recursive_fixes, lines 35-57, for an execution that fails
   with error below the bound: the revision request, and the revision is
   rejected (the chain returns) or recorded and executed next *)
RepairAttempt(errors, bound) ==
    /\ repair_pc = "executing"
    /\ should_attempt_fix(repair_depth, [timeout |-> FALSE], bound)
    /\ \E error \in errors, valid \in BOOLEAN :
          /\ repair_prompt' = fix_prompt(Revision(repair_depth), error,
                                         repair_depth, repair_history)
          /\ IF valid
                THEN /\ repair_history' =
                            record_fix_attempt(repair_history, repair_depth,
                                               Revision(repair_depth),
                                               Revision(repair_depth + 1), error)
                     /\ repair_depth' = repair_depth + 1
                     /\ repair_pc' = "executing"
                ELSE /\ repair_pc' = "returned"
                     /\ UNCHANGED <<repair_history, repair_depth>>
    /\ UNCHANGED outside_repair

(* _execute_with_recursive_fixes, lines 38-43: the execution succeeds, times
   out or fails at the bound, and the chain returns *)
RepairReturn ==
    /\ repair_pc = "executing"
    /\ repair_pc' = "returned"
    /\ UNCHANGED <<repair_depth, repair_history, repair_prompt>>
    /\ UNCHANGED outside_repair

InitRepair ==
    /\ InitAgent
    /\ max_fix_depth = MAX_FIX_DEPTH
    /\ JsonIdle /\ SandboxIdle /\ ScanIdle /\ CleanIdle
    /\ RepairIdle

TrailAttempt == RepairAttempt(TrailErrors, MaxTrailDepth)

NextTrail ==
    \/ RepairStart
    \/ TrailAttempt
    \/ RepairReturn

SpecTrail == InitRepair /\ [][NextTrail]_vars

ContextAttempt == RepairAttempt(ContextErrors, MaxContextDepth)

NextFixContext ==
    \/ RepairStart
    \/ ContextAttempt
    \/ RepairReturn

SpecFixContext == InitRepair /\ [][NextFixContext]_vars

----------------------------------------------------------------------------
(* AgenticExecutor._extract_context applied to an output *)

MaxScanLines == 3

\* the lines a program can print
LineResult == <<RESULT_MARKER, Whitespace, "price", Whitespace, "=", Whitespace, "100">>
LineResultAgain ==
    <<RESULT_MARKER, Whitespace, "price", Whitespace, "=", Whitespace, "200", Whitespace>>
LineResultTight == <<RESULT_MARKER, "total", "=", "5">>
LineResultEquals ==
    <<RESULT_MARKER, Whitespace, "rule", "=", "a", Whitespace, "=", Whitespace, "b">>
LinePlain == <<"done">>
LineNoEquals == <<RESULT_MARKER, Whitespace, "price">>
LineEqualsBefore == <<"x", Whitespace, "=", Whitespace, RESULT_MARKER, Whitespace, "price">>

ScanLines ==
    {LineResult, LineResultAgain, LineResultTight, LineResultEquals,
     LinePlain, LineNoEquals, LineEqualsBefore}

\* output.split('\n') of the outputs of at most MaxScanLines lines
ScanOutputs ==
    UNION {[1..n -> ScanLines] : n \in 0..MaxScanLines}

\* the context store before the call: empty, or with a value from before
ScanContexts ==
    {<<>>, [n \in {<<"price">>} |-> <<"1">>]}

InitScan ==
    /\ InitAgent
    /\ max_fix_depth = MAX_FIX_DEPTH
    /\ JsonIdle /\ SandboxIdle /\ RepairIdle /\ CleanIdle
    /\ scan_pc = "called"
    /\ scan_output \in ScanOutputs
    /\ scan_before \in ScanContexts
    /\ scan_context = scan_before

ExtractContext ==
    /\ scan_pc = "called"
    /\ scan_context' = extract_context(scan_output, scan_before)
    /\ scan_pc' = "returned"
    /\ UNCHANGED <<scan_output, scan_before, outside_scan>>

NextScan == ExtractContext

SpecScan == InitScan /\ [][NextScan]_vars

----------------------------------------------------------------------------
(* Code Synthesizer: CodeExecutor._clean_code applied to a reply *)

MaxReplyLines == 3

\* the lines of a reply, without their indentation
LinePrint == "print(x)"
LineAssign == "x = 1"
LineTuple == "(x) = 1"
LineHereColon == "Here is the code:"
LineHereMore == "Here is more"
LineBelow == "Below is the code"
LineLongPython == "The python code below prints the value of x on screen"
LineBlank == ""

ReplyLines ==
    {Ln(FencePy), Ln(Fence), Ln(LinePrint), Ln(LineAssign), LnInd(LineAssign),
     Ln(LineTuple), Ln(LineHereColon), Ln(LineHereMore), Ln(LineBelow),
     Ln(LineLongPython), Ln(LineBlank)}

\* response['message']['content'].strip().split('\n'): the first line of a
\* reply has no leading whitespace and its ends are not blank
Replies ==
    {r \in UNION {[1..n -> ReplyLines] : n \in 0..MaxReplyLines} :
        Len(r) > 0 => /\ ~r[1].ind
                      /\ r[1].txt # LineBlank
                      /\ r[Len(r)].txt # LineBlank}

\* any(stripped.startswith(phrase) for phrase in skip_phrases)
starts_with_skip_phrase(txt) == txt \in {LineHereColon, LineHereMore}

\* phrase in text, for a phrase of skip_phrases
has_skip_phrase(txt) == txt \in {LineHereColon, LineHereMore}

\* 'python' in stripped.lower() and len(stripped) > 50
is_long_python_mention(txt) == txt \in {LineLongPython}

\* stripped.startswith(code_indicators)
starts_with_code_indicator(txt) == txt \in {LinePrint}

\* stripped and (stripped[0].isalpha() or stripped.startswith(code_indicators))
opens_code(txt) ==
    txt \in {LinePrint, LineAssign, LineHereColon, LineHereMore, LineBelow,
             LineLongPython}

\* the first loop of _clean_code from line i on: clean_lines
RECURSIVE clean_lines(_, _, _, _)
clean_lines(lines, i, in_code_block, acc) ==
    IF i > Len(lines) THEN acc
    ELSE LET line == lines[i]
             stripped == line.txt
         IN  IF stripped = FencePy THEN clean_lines(lines, i + 1, TRUE, acc)
             ELSE IF stripped = Fence /\ in_code_block THEN acc
             ELSE IF stripped = Fence THEN clean_lines(lines, i + 1, in_code_block, acc)
             ELSE IF ~in_code_block /\ starts_with_skip_phrase(stripped)
                  THEN clean_lines(lines, i + 1, in_code_block, acc)
             ELSE IF ~in_code_block /\ is_long_python_mention(stripped)
                  THEN clean_lines(lines, i + 1, in_code_block, acc)
             ELSE LET now == in_code_block \/ opens_code(stripped)
                  IN  IF now /\ stripped # LineBlank
                      THEN clean_lines(lines, i + 1, now, Append(acc, line))
                      ELSE clean_lines(lines, i + 1, now, acc)

\* the test of the comprehension of lines 176-182
is_essential_line(line) ==
    /\ line.txt # LineBlank
    /\ \/ starts_with_code_indicator(line.txt)
       \/ line.txt \in {LineAssign, LineTuple}
       \/ line.txt \in {LineHereColon}
       \/ line.ind

\* CodeExecutor._clean_code
clean_code(raw_code) ==
    IF Len(raw_code) = 0 THEN EmptyCode
    ELSE LET cleaned == Strip(clean_lines(raw_code, 1, FALSE, <<>>))
             essential_lines == SelectSeq(cleaned, is_essential_line)
         IN  IF (\E k \in 1..Len(cleaned) : has_skip_phrase(cleaned[k].txt))
                /\ Len(essential_lines) > 0
             THEN essential_lines
             ELSE cleaned

InitClean ==
    /\ InitAgent
    /\ max_fix_depth = MAX_FIX_DEPTH
    /\ JsonIdle /\ SandboxIdle /\ RepairIdle /\ ScanIdle
    /\ clean_pc = "called"
    /\ clean_reply \in Replies
    /\ clean_result = <<>>

CleanCode ==
    /\ clean_pc = "called"
    /\ clean_result' = clean_code(clean_reply)
    /\ clean_pc' = "returned"
    /\ UNCHANGED <<clean_reply, outside_clean>>

NextClean == CleanCode

SpecClean == InitClean /\ [][NextClean]_vars

----------------------------------------------------------------------------
(* Properties *)

Execs == SelectSeq(log, LAMBDA e : e.ev = "exec")
FixRequests == SelectSeq(log, LAMBDA e : e.ev = "llm_fix")
FinalRuns == SelectSeq(log, LAMBDA e : e.ev = "final_exec")
TaskGenerations == SelectSeq(log, LAMBDA e : e.ev = "llm_generate_task")

HasPart(error, text) == \E i \in 1..Len(error) : error[i].text = text
DepthExhausted(error) == HasPart(error, "Reached maximum recursive fix depth")
FixStopped(error) == HasPart(error, "Recursive fixing stopped at depth")

Min(a, b) == IF a < b THEN a ELSE b

\* generate_and_execute has returned result to _execute_unified
ControllerReturned == pc = "unified_return"
ChainOver == pc \in {"unified_return", "returned"}

\* C1: the depth of the result generate_and_execute returns lies in
\* 0..max_fix_depth, and no sandbox execution is started at a depth above
\* max_fix_depth.
C1_DepthWithinBound ==
    /\ depth \in 0..max_fix_depth
    /\ \A i \in 1..Len(log) :
          log[i].ev = "exec" => log[i].depth \in 0..max_fix_depth
    /\ ControllerReturned => result.fix_attempts \in 0..max_fix_depth

C1_Witness ==
    /\ ControllerReturned
    /\ max_fix_depth > 1
    /\ result.fix_attempts = max_fix_depth
    /\ Len(Execs) = max_fix_depth + 1

\* C2: no code is executed in a repair chain whose content hash equals that
\* of a code executed earlier in the chain, the initial code included.
C2_NoTriedHashExecutedAgain ==
    \A i, j \in 1..Len(Execs) :
        i < j => md5_of_stripped(Execs[i].code) # md5_of_stripped(Execs[j].code)

\* C3: an execution of the repair loop that times out is the last call of the
\* chain: the controller returns its result, with no revision requested, no
\* FixAttempt appended and no hash added.
C3_TimeoutReturnsImmediately ==
    \A i \in 1..Len(log) :
        (log[i].ev = "exec" /\ log[i].out.timeout) =>
            /\ i = Len(log)
            /\ ChainOver
            /\ Len(fix_history) = log[i].depth
            /\ Cardinality(code_hashes) = log[i].depth
            /\ ControllerReturned =>
                  /\ result.timeout
                  /\ ~result.success
                  /\ result.code = log[i].code
                  /\ result.fix_attempts = log[i].depth

C3_Witness ==
    /\ ControllerReturned
    /\ result.fix_attempts >= 1
    /\ get_timeout(result)
    /\ log[Len(log)].ev = "exec"
    /\ Len(fix_history) = result.fix_attempts

\* C4: an execution of the repair loop that succeeds is the last call of the
\* chain and its result is the one returned; when the first execution
\* succeeds the depth returned is 0 and the fix trail is empty.
C4_SuccessReturnsImmediately ==
    /\ \A i \in 1..Len(log) :
          (log[i].ev = "exec" /\ log[i].out.success) =>
              /\ i = Len(log)
              /\ ChainOver
              /\ ControllerReturned =>
                    /\ result.success
                    /\ result.code = log[i].code
                    /\ result.fix_attempts = log[i].depth
                    /\ result.output = log[i].out.output
    /\ (ControllerReturned /\ Len(Execs) >= 1 /\ Execs[1].out.success) =>
          /\ result.fix_attempts = 0
          /\ fix_history = <<>>

C4_Witness ==
    /\ ControllerReturned
    /\ result.success
    /\ result.fix_attempts = 0
    /\ Len(Execs) = 1
    /\ fix_history = <<>>

\* C5: the k-th execution of a chain runs at depth k-1; the depth returned is
\* the number of revisions accepted and executed, and on return the fix trail
\* holds one FixAttempt per accepted revision, the last HISTORY_LIMIT of them.
C5_DepthCountsAcceptedRevisions ==
    /\ \A k \in 1..Len(Execs) : Execs[k].depth = k - 1
    /\ ControllerReturned =>
          LET accepted == IF Len(Execs) = 0 THEN 0 ELSE Len(Execs) - 1
              kept == Min(accepted, HISTORY_LIMIT)
              off == accepted - kept
          IN  /\ result.fix_attempts = accepted
              /\ Len(fix_history) = kept
              /\ \A k \in 1..kept :
                    /\ fix_history[k].depth = off + k - 1
                    /\ fix_history[k].original_code = Execs[off + k].code
                    /\ fix_history[k].fixed_code = Execs[off + k + 1].code
                    /\ fix_history[k].error = Execs[off + k].out.error

C5_Witness ==
    /\ ControllerReturned
    /\ result.success
    /\ Len(Execs) = 2
    /\ result.fix_attempts = 1
    /\ Len(fix_history) = 1

\* C6: a failure without timeout at depth max_fix_depth is the last call of
\* the chain and is returned with the depth-exhausted annotation; a result
\* returned at a depth below max_fix_depth never carries the annotation.
C6_DepthExhaustedAnnotation ==
    /\ \A i \in 1..Len(log) :
          ( /\ log[i].ev = "exec"
            /\ ~log[i].out.success
            /\ ~log[i].out.timeout
            /\ log[i].depth = max_fix_depth ) =>
              /\ i = Len(log)
              /\ ChainOver
              /\ ControllerReturned =>
                    /\ ~result.success
                    /\ result.fix_attempts = max_fix_depth
                    /\ DepthExhausted(result.error)
    /\ (ControllerReturned /\ result.fix_attempts < max_fix_depth) =>
          ~DepthExhausted(result.error)

C6_Witness ==
    /\ ControllerReturned
    /\ ~result.success
    /\ ~get_timeout(result)
    /\ result.fix_attempts = max_fix_depth
    /\ DepthExhausted(result.error)
    /\ log[Len(log)].ev = "exec"

\* the i-th call is a revision request answered by the empty text, by the code
\* just executed, or by a text whose hash is that of an earlier revision of
\* the chain
RevisionRepeats(i) ==
    \E k \in 1..(i - 1) :
        /\ log[k].ev = "llm_fix"
        /\ md5_of_stripped(log[k].reply) = md5_of_stripped(log[i].reply)

RevisionRejectable(i) ==
    /\ log[i].ev = "llm_fix"
    /\ \/ log[i].reply = EmptyCode
       \/ log[i].reply = log[i].code
       \/ RevisionRepeats(i)

\* C7: a revision that is empty, identical to the code just executed or a
\* duplicate ends the chain: no call follows it, no FixAttempt is recorded for
\* it, and the result returned is that of the last execution (failed, same
\* code, same depth) with the stop annotation appended to its error.
C7_RejectedRevisionStops ==
    \A i \in 1..Len(log) :
        RevisionRejectable(i) =>
            /\ i = Len(log)
            /\ ChainOver
            /\ Len(fix_history) = log[i].depth
            /\ ControllerReturned =>
                  /\ ~result.success
                  /\ result.code = log[i].code
                  /\ result.fix_attempts = log[i].depth
                  /\ log[i - 1].ev = "exec"
                  /\ log[i - 1].code = result.code
                  /\ result.output = log[i - 1].out.output
                  /\ result.error =
                        Append(log[i - 1].out.error,
                               Part("Recursive fixing stopped at depth", log[i].depth))

C7_Witness ==
    /\ ControllerReturned
    /\ log[Len(log)].ev = "llm_fix"
    /\ log[Len(log)].reply = log[Len(log)].code
    /\ result.fix_attempts >= 1
    /\ FixStopped(result.error)

\* C8: no two accepted (executed) revisions of a chain have the same content
\* hash, and a revision whose hash repeats that of an earlier revision is the
\* last call of the chain.
C8_AcceptedRevisionsDistinct ==
    /\ LET execs == Execs
       IN  \A i, j \in 1..Len(execs) :
               (1 < i /\ i < j) =>
                   md5_of_stripped(execs[i].code) # md5_of_stripped(execs[j].code)
    /\ \A i \in 1..Len(log) :
          (log[i].ev = "llm_fix" /\ RevisionRepeats(i)) => i = Len(log)

C8_Witness ==
    /\ ControllerReturned
    /\ Len(Execs) >= 3
    /\ log[Len(log)].ev = "llm_fix"
    /\ log[Len(log)].reply # log[Len(log)].code
    /\ RevisionRepeats(Len(log))

\* the number of steps the repair loop can still take
Rank ==
    IF pc = "executing" THEN 2 * (max_fix_depth - depth) + 2
    ELSE IF pc = "fixing" THEN 2 * (max_fix_depth - depth) + 1
    ELSE 0

\* C9: generate_and_execute runs at most max_fix_depth + 1 executions and
\* asks for at most max_fix_depth revisions, one execution after the other
\* (the k-th at depth k-1, each revision request after the execution it
\* repairs), and every step of the loop lowers a non-negative rank, so the
\* loop ends.
C9_BoundedSequentialTermination ==
    /\ [](/\ Len(Execs) <= max_fix_depth + 1
          /\ Len(FixRequests) <= max_fix_depth
          /\ \A k \in 1..Len(Execs) : Execs[k].depth = k - 1
          /\ \A k \in 1..Len(FixRequests) : FixRequests[k].depth = k - 1
          /\ Len(FixRequests) <= Len(Execs)
          /\ Rank >= 0)
    /\ [][(pc \in {"executing", "fixing"}) => (Rank' < Rank)]_vars

C9_Witness ==
    /\ ControllerReturned
    /\ Len(Execs) = max_fix_depth + 1
    /\ Len(FixRequests) = max_fix_depth
    /\ max_fix_depth > 1

\* the request has a non-empty task list
OnSequentialPath ==
    \/ pc \in {"task_loop", "finalize", "final_exec"}
    \/ Len(TaskGenerations) > 0

\* C10: on the sequential path with a non-empty task list no task code is
\* executed and no revision is requested; the merged program is executed at
\* most once, after every task was attempted, as the last call of the
\* request; it is executed exactly once when there is a merged program and
\* not at all when there is none, and its failure is returned as it is.
C10_SequentialRunsMergedOnce ==
    OnSequentialPath =>
        LET generations == TaskGenerations
        IN
        /\ Len(Execs) = 0
        /\ Len(FixRequests) = 0
        /\ Len(FinalRuns) <= 1
        /\ \A k \in 1..Len(generations) : generations[k].depth = k
        /\ Len(FinalRuns) = 1 =>
              /\ log[Len(log)].ev = "final_exec"
              /\ log[Len(log)].code # EmptyCode
              /\ Len(generations) = Len(task_results)
              /\ pc = "returned"
              /\ response.final_code = log[Len(log)].code
              /\ response.success = log[Len(log)].out.success
        /\ pc = "returned" =>
              /\ Len(generations) = Len(task_results)
              /\ Len(FinalRuns) = (IF "final_code" \in DOMAIN response THEN 1 ELSE 0)
              /\ "final_code" \notin DOMAIN response =>
                    \/ response.error = <<Part("Failed to merge code", 0)>>
                    \/ response.error = <<Part("No tasks generated code successfully", 0)>>

C10_Witness ==
    /\ OnSequentialPath
    /\ pc = "returned"
    /\ Len(TaskGenerations) = 2
    /\ Len(FinalRuns) = 1
    /\ ~response.success
    /\ ~FinalRuns[1].out.success

MergeCalls == SelectSeq(log, LAMBDA e : e.ev = "llm_merge")

\* the call raised an exception
Raised(e) == "raised" \in DOMAIN e.out

\* what ollama.chat did when the merger called it, read off the history
LoggedMergeReply ==
    IF Len(MergeCalls) = 0 \/ Raised(MergeCalls[1])
    THEN [raised |-> TRUE, content |-> EmptyCode]
    ELSE [raised |-> FALSE, content |-> MergeCalls[1].reply]

\* the merge of the request is over
MergeOver == OnSequentialPath /\ pc \in {"final_exec", "returned"}

\* C11: when the Code Merger yields no code (no successful task, a failed
\* model call, or a reply nothing can be extracted from) the request returns
\* a failure and the sandbox is not invoked at all; whatever the sandbox runs
\* on the sequential path is the non-empty code the merger yielded.
C11_NoMergedCodeNoExecution ==
    MergeOver =>
        LET merged == merge_code_blocks(task_results, LoggedMergeReply)
        IN  /\ merged = EmptyCode =>
                  /\ pc = "returned"
                  /\ ~response.success
                  /\ "final_code" \notin DOMAIN response
                  /\ Len(FinalRuns) = 0
                  /\ Len(Execs) = 0
            /\ \A k \in 1..Len(FinalRuns) :
                  /\ FinalRuns[k].code = merged
                  /\ FinalRuns[k].code # EmptyCode

C11_Witness ==
    /\ MergeOver
    /\ pc = "returned"
    /\ Len(successful_results(task_results)) = 2
    /\ Len(MergeCalls) = 1
    /\ ~Raised(MergeCalls[1])
    /\ MergeCalls[1].reply # EmptyCode
    /\ merge_code_blocks(task_results, LoggedMergeReply) = EmptyCode
    /\ ~response.success
    /\ Len(FinalRuns) = 0

\* the prompt inlines the assignment of value to name
PromptBinds(prompt, name, value) ==
    /\ "context_code" \in DOMAIN prompt
    /\ name \in DOMAIN prompt.context_code
    /\ prompt.context_code[name] = value

\* the task names the variable among its context_variables
Declares(task, name) ==
    \E k \in 1..Len(task.context_variables) : task.context_variables[k] = name

\* the context store holds value under name
ContextHolds(name, value) == name \in DOMAIN context /\ context[name] = value

\* C12: while the tasks of a sequential request are worked on and the context
\* store holds price = 100 (extracted from an output line
\* 'RESULT: price = 100'), the synthesis request of every task that declares
\* the dependency 'price' contains the value 100 bound to the name price.
C12_ContextThreading ==
    (pc \in {"task_loop", "finalize", "final_exec"}
         /\ ContextHolds(<<"price">>, <<"100">>)) =>
        \A i \in 1..Len(log) :
            ( /\ log[i].ev = "llm_generate_task"
              /\ Declares(task_results[log[i].depth].task, <<"price">>) ) =>
                PromptBinds(log[i].prompt, <<"price">>, <<"100">>)

\* the request has just been handed to a strategy: nothing of it has been
\* generated or executed yet
RequestStarted ==
    /\ pc \in {"unified", "sequential"}
    /\ Len(log) = 2

\* C13: a request starts with an empty context store, no task results, an
\* empty fix trail and an empty hash set, and the prompt of its code
\* generation inlines no variable of an earlier request.
C13_FreshSessionPerRequest ==
    /\ RequestStarted =>
          /\ context = <<>>
          /\ task_results = <<>>
          /\ fix_history = <<>>
          /\ code_hashes = {}
    /\ \A i \in 1..Len(log) :
          log[i].ev = "llm_generate" => log[i].prompt.context_code = <<>>

DecomposeCalls == SelectSeq(log, LAMBDA e : e.ev = "llm_decompose")

\* the task list the decomposition of the request replied with
DecomposedTasks == DecomposeCalls[1].reply

NoTasksError == <<Part("No tasks generated code successfully", 0)>>

\* C14: on the sequential path every task of the list is attempted in order,
\* whatever the earlier results; a task whose generation yields nothing is
\* recorded as a TaskResult with success false and no code; the request ends
\* with 'No tasks generated code successfully' only when no task succeeded,
\* and otherwise with what the merge and the one run of the merged code give.
C14_TaskFailureDoesNotAbort ==
    OnSequentialPath =>
        LET generations == TaskGenerations
            decomposed == DecomposedTasks
        IN
        /\ Len(task_results) = Len(generations)
        /\ Len(task_results) <= Len(decomposed)
        /\ \A k \in 1..Len(task_results) :
              /\ generations[k].depth = k
              /\ task_results[k].task = AgenticTask(decomposed[k])
              /\ task_results[k].success = (generations[k].reply # EmptyCode)
              /\ task_results[k].code = generations[k].reply
              /\ ~task_results[k].success =>
                    task_results[k].error =
                        <<Part("Failed to generate code for task", 0)>>
        /\ pc = "task_loop" => task_i = Len(task_results) + 1
        /\ pc \in {"finalize", "final_exec", "returned"} =>
              Len(task_results) = Len(decomposed)
        /\ pc = "returned" =>
              /\ (~response.success /\ response.error = NoTasksError)
                     <=> Len(successful_results(task_results)) = 0
              /\ response.success
                     <=> (Len(FinalRuns) = 1 /\ FinalRuns[1].out.success)

C14_Witness ==
    /\ OnSequentialPath
    /\ pc = "returned"
    /\ Len(task_results) = 2
    /\ ~task_results[1].success
    /\ task_results[2].success
    /\ response.success
    /\ Len(FinalRuns) = 1
    /\ FinalRuns[1].code = task_results[2].code

\* the decomposition of the request came back with an empty task list
EmptyBreakdown ==
    /\ Len(DecomposeCalls) = 1
    /\ ~Raised(DecomposeCalls[1])
    /\ DecomposedTasks = <<>>

\* C15: when the decomposition yields an empty task list the request goes on
\* with the unified strategy: the next call is the unified code generation,
\* followed by the repair loop; no task code is generated, nothing is merged
\* and no merged code is run, and the response is that of _execute_unified.
C15_EmptyBreakdownFallsBack ==
    EmptyBreakdown =>
        /\ pc \in {"unified", "executing", "fixing", "unified_return", "returned"}
        /\ Len(TaskGenerations) = 0
        /\ Len(MergeCalls) = 0
        /\ Len(FinalRuns) = 0
        /\ log[3].ev = "llm_decompose"
        /\ pc # "unified" => (Len(log) >= 4 /\ log[4].ev = "llm_generate")
        /\ \A i \in 5..Len(log) : log[i].ev \in {"exec", "llm_fix"}
        /\ pc = "returned" =>
              IF response.success
              THEN /\ "output" \notin DOMAIN response
                   /\ log[Len(log)].ev = "exec"
                   /\ response.final_code = log[Len(log)].code
              ELSE response.error[1] = Part("Unified execution failed:", 0)

C15_Witness ==
    /\ EmptyBreakdown
    /\ pc = "returned"
    /\ Len(Execs) = 2
    /\ Len(FixRequests) = 1
    /\ response.success

\* the record lacks 'description' or 'goal'
MissingField(record) == ~({"description", "goal"} \subseteq DOMAIN record)

\* C16: a decomposition reply that parses to records of which one lacks
\* 'description' or 'goal' does not make an error escape: the request goes on
\* with a task list.
C16_MissingFieldTolerated ==
    \A i \in 1..Len(log) :
        ( /\ log[i].ev = "llm_decompose"
          /\ ~Raised(log[i])
          /\ \E k \in 1..Len(log[i].reply) : MissingField(log[i].reply[k]) ) =>
            pc # "crashed"

\* C20: every step that adds or changes a variable of the context store is
\* the return of _execute_unified from a successful result, or the successful
\* run of the merged code, and what it writes is what _extract_context reads
\* off that output; no other step (failed or timed-out execution, failed
\* generation, failed merge) writes the context.
C20_ContextWrittenOnlyAfterSuccess ==
    [][ (context' # context) =>
            \/ /\ pc = "unified_return"
               /\ result.success
               /\ context' = extract_context(result.output, context)
            \/ /\ pc = "final_exec"
               /\ log'[Len(log')].ev = "final_exec"
               /\ log'[Len(log')].out.success
               /\ context' = extract_context(log'[Len(log')].out.output, context)
      ]_vars

\* a failed execution whose output holds a result line has left the context
\* store empty
C20_Witness ==
    /\ pc = "returned"
    /\ ~response.success
    /\ log[Len(log)].ev \in {"exec", "final_exec"}
    /\ ~log[Len(log)].out.success
    /\ log[Len(log)].out.output = OutResultThenMarker
    /\ context = <<>>

\* the text is an array of records, bare or in a json fence, with or without
\* a comma before the closing bracket
IsRecordArrayText(text, records) ==
    \E w \in {"bare", "json fence"}, trailing \in BOOLEAN :
        text = Wrap(w, RenderArray(records, trailing, TRUE))

\* C17: for an array of task records, extract_json returns the list of the
\* records whether the array is in a json fence or bare, and whether or not
\* a comma precedes the closing bracket; an array of one record gives a list
\* of one element.
C17_ExtractionRoundTrip ==
    json_pc = "returned" =>
        \A records \in RecordSeqs :
            IsRecordArrayText(json_text, records) => json_result = ListOf(records)

\* C18: extract_json returns None for an empty or blank text; otherwise it
\* returns what the first of fenced blocks, bracket span, repairs and direct
\* parse yields, in this order, whatever the later ones would yield, and None
\* when none of them yields a value.
C18_StrategyOrder ==
    json_pc = "returned" =>
        LET blocks == json_extract_from_code_blocks(json_text)
            brackets == extract_from_brackets(json_text)
            fixed == extract_and_fix_json(json_text)
            direct == parse_direct(json_text)
        IN  IF Len(json_text) = 0 \/ json_text = <<Whitespace>>
            THEN json_result = JNone
            ELSE /\ blocks # JNone => json_result = blocks
                 /\ (blocks = JNone /\ brackets # JNone) => json_result = brackets
                 /\ (blocks = JNone /\ brackets = JNone /\ fixed # JNone) =>
                        json_result = fixed
                 /\ (blocks = JNone /\ brackets = JNone /\ fixed = JNone) =>
                        json_result = direct

\* the bracket span wins although the direct parse would give another value
C18_Witness ==
    /\ json_pc = "returned"
    /\ json_extract_from_code_blocks(json_text) = JNone
    /\ extract_from_brackets(json_text) # JNone
    /\ parse_direct(json_text) # JNone
    /\ parse_direct(json_text) # extract_from_brackets(json_text)
    /\ json_result = extract_from_brackets(json_text)

\* C19: when _execute_code has returned, the temporary file it created does
\* not exist.
C19_TempFileRemoved ==
    sandbox_pc = "returned" => temp_file \notin temp_files

\* C21: a failed result returned by the repair controller names the kind of
\* failure that stopped the chain, after the last observed error text: a
\* timeout carries the timeout flag and message and neither annotation (also
\* at depth max_fix_depth), a chain stopped by the depth bound carries the
\* depth-exhausted annotation only, a rejected revision the rejected-fix
\* annotation only.
C21_FailureKindIdentified ==
    (ControllerReturned /\ ~result.success /\ Len(Execs) >= 1) =>
        LET last == Execs[Len(Execs)]
            observed == last.out.error
            rejected == log[Len(log)].ev = "llm_fix"
        IN  /\ SubSeq(result.error, 1, Len(observed)) = observed
            /\ last.out.timeout =>
                  /\ get_timeout(result)
                  /\ result.error = observed
                  /\ HasPart(result.error, "Code execution timed out after")
            /\ (~last.out.timeout /\ ~rejected) =>
                  /\ DepthExhausted(result.error)
                  /\ ~FixStopped(result.error)
                  /\ Len(result.error) = Len(observed) + 1
            /\ rejected =>
                  /\ FixStopped(result.error)
                  /\ ~DepthExhausted(result.error)
                  /\ Len(result.error) = Len(observed) + 1

\* C22: the code a result reports is the code the sandbox ran to produce it:
\* the controller's result carries the code, success and output of the last
\* execution of the chain (never a rejected revision), and the final_code of
\* a response is the code of the last execution of the request, which on the
\* sequential path is the merged program.
C22_ReportedCodeWasRun ==
    /\ (pc \in {"fixing", "unified_return"} /\ Len(Execs) >= 1) =>
          LET last == Execs[Len(Execs)]
          IN  /\ result.code = last.code
              /\ result.success = last.out.success
              /\ result.output = last.out.output
              /\ result.fix_attempts = last.depth
    /\ (pc = "returned" /\ "final_code" \in DOMAIN response) =>
          LET last == log[Len(log)]
          IN  /\ last.ev \in {"exec", "final_exec"}
              /\ response.final_code = last.code
              /\ response.success = last.out.success
              /\ last.ev = "exec" => response.success
              /\ last.ev = "final_exec" =>
                    /\ response.final_code =
                           merge_code_blocks(task_results, LoggedMergeReply)
                    /\ response.success => response.output = last.out.output

\* two tasks generated code, the model merged them into a program that is
\* neither fragment, and that program was run and is reported
C22_Witness ==
    /\ pc = "returned"
    /\ Len(successful_results(task_results)) = 2
    /\ Len(FinalRuns) = 1
    /\ response.success
    /\ response.final_code = FinalRuns[1].code
    /\ \A k \in 1..Len(task_results) : task_results[k].code # response.final_code

\* C23: with exactly one successful task result the merger returns that
\* task's code as the code extractor leaves it and calls no model; the model
\* is called for the merge (once) exactly when two or more task results are
\* successful.
C23_SingleTaskNoModelCall ==
    MergeOver =>
        LET ok == successful_results(task_results)
            extracted == extract_code(ok[1].code)
        IN  /\ Len(MergeCalls) = (IF Len(ok) >= 2 THEN 1 ELSE 0)
            /\ Len(ok) = 1 =>
                  /\ pc = "final_exec" => final_code = extracted
                  /\ \A k \in 1..Len(FinalRuns) : FinalRuns[k].code = extracted
                  /\ (pc = "returned" /\ extracted # EmptyCode) =>
                        /\ Len(FinalRuns) = 1
                        /\ response.final_code = extracted
                  /\ (pc = "returned" /\ extracted = EmptyCode) =>
                        /\ Len(FinalRuns) = 0
                        /\ response.error = <<Part("Failed to merge code", 0)>>

\* of two tasks one generated code; it was run with no merge call
C23_Witness ==
    /\ MergeOver
    /\ pc = "returned"
    /\ Len(task_results) = 2
    /\ Len(successful_results(task_results)) = 1
    /\ Len(MergeCalls) = 0
    /\ Len(FinalRuns) = 1
    /\ FinalRuns[1].code = extract_code(successful_results(task_results)[1].code)

\* C24: the fix trail never holds more than HISTORY_LIMIT FixAttempts; an
\* append to a full trail evicts the oldest entry and no other, the entries
\* kept stay in their order, and a recorded entry is not changed as long as
\* it is in the trail.
C24_TrailBounded ==
    /\ [](Len(repair_history) <= HISTORY_LIMIT)
    /\ [][ (repair_history' # repair_history) =>
             ( \/ repair_history' = <<>>
               \/ LET kept == IF Len(repair_history) = HISTORY_LIMIT
                              THEN Tail(repair_history) ELSE repair_history
                  IN  /\ Len(repair_history') = Len(kept) + 1
                      /\ SubSeq(repair_history', 1, Len(kept)) = kept
                      /\ repair_history'[Len(kept) + 1].depth = repair_depth ) ]_vars

\* the trail is full and its oldest entry is no longer the first recorded
C24_Witness ==
    /\ Len(repair_history) = HISTORY_LIMIT
    /\ repair_depth = HISTORY_LIMIT + 1
    /\ repair_history[1].depth = 1
    /\ repair_history[HISTORY_LIMIT].depth = HISTORY_LIMIT

\* the FixAttempts recorded before the prompt built last
RecordedBeforePrompt ==
    SelectSeq(repair_history, LAMBDA e : e.depth < repair_prompt.attempt - 1)

\* the line is the digest of the attempt: its number, and its error, cut
\* after PREVIEW_LIMIT characters and followed by an ellipsis when longer
DigestOf(line, attempt) ==
    /\ line.attempt = attempt.depth + 1
    /\ IF Len(attempt.error) > PREVIEW_LIMIT
       THEN /\ Len(line.error_preview) = PREVIEW_LIMIT + 1
            /\ SubSeq(line.error_preview, 1, PREVIEW_LIMIT) =
                   SubSeq(attempt.error, 1, PREVIEW_LIMIT)
            /\ line.error_preview[PREVIEW_LIMIT + 1] = Ellipsis
       ELSE line.error_preview = attempt.error

\* C27: the revision request built after a failure at depth d names attempt
\* d + 1 and holds the failing code, its error text and a digest of the last
\* RECENT_ATTEMPTS FixAttempts recorded so far (all of them when fewer), in
\* the order they were recorded, each with its error cut to PREVIEW_LIMIT
\* characters and an ellipsis when longer; with no FixAttempt recorded the
\* digest says there are no previous attempts.
C27_RevisionRequestDigest ==
    (repair_pc # "idle" /\ repair_prompt # NoResult) =>
        LET prior == RecordedBeforePrompt
            digest == repair_prompt.fix_context
            n == Min(Len(prior), RECENT_ATTEMPTS)
            off == Len(prior) - n
        IN  /\ repair_prompt.failed_code = Revision(repair_prompt.attempt - 1)
            /\ Len(prior) = repair_prompt.attempt - 1
            /\ Len(repair_history) > Len(prior) =>
                  LET accepted == repair_history[Len(repair_history)]
                  IN  /\ accepted.original_code = repair_prompt.failed_code
                      /\ accepted.error = repair_prompt.error_message
            /\ IF Len(prior) = 0
               THEN digest = NoPreviousAttempts
               ELSE /\ Len(digest) = n
                    /\ \A k \in 1..n : DigestOf(digest[k], prior[off + k])

\* four attempts were recorded before the request; its digest holds the last
\* three, one error cut and one of exactly PREVIEW_LIMIT characters whole
C27_Witness ==
    /\ repair_prompt # NoResult
    /\ repair_prompt.attempt = 5
    /\ Len(RecordedBeforePrompt) = 4
    /\ Len(repair_prompt.fix_context) = RECENT_ATTEMPTS
    /\ repair_prompt.fix_context[1].attempt = 2
    /\ Len(repair_prompt.fix_context[1].error_preview) = PREVIEW_LIMIT + 1
    /\ RecordedBeforePrompt[2].error = ErrorText(PREVIEW_LIMIT + 1)
    /\ repair_prompt.fix_context[2].error_preview = ErrorText(PREVIEW_LIMIT)
    /\ RecordedBeforePrompt[1].error = ErrorText(PREVIEW_LIMIT + 1)

\* the position of the first marker of the line, 0 when there is none
MarkerAt(line) ==
    IF HasToken(line, RESULT_MARKER) THEN IndexOf(line, RESULT_MARKER) ELSE 0

\* the positions of the '=' signs after the first marker
EqualsAfterMarker(line) ==
    {i \in 1..Len(line) : MarkerAt(line) > 0 /\ i > MarkerAt(line) /\ line[i] = "="}

\* the line has the form RESULT: name = value
IsResultLine(line) == EqualsAfterMarker(line) # {}

FirstEquals(line) ==
    CHOOSE i \in EqualsAfterMarker(line) : \A k \in EqualsAfterMarker(line) : i <= k

\* the tokens of the line between positions a and b that are no whitespace
\* at either end
Trimmed(line, a, b) ==
    LET solid == {i \in a..b : line[i] # Whitespace}
    IN  [k \in 1..(IF solid = {} THEN 0
                   ELSE 1 + (CHOOSE i \in solid : \A m \in solid : i >= m)
                          - (CHOOSE i \in solid : \A m \in solid : i <= m)) |->
            line[k - 1 + (CHOOSE i \in solid : \A m \in solid : i <= m)]]

NameOf(line) == Trimmed(line, MarkerAt(line) + 1, FirstEquals(line) - 1)
ValueOf(line) == Trimmed(line, FirstEquals(line) + 1, Len(line))

\* the lines of the output that assign to the name
AssigningLines(name) ==
    {i \in 1..Len(scan_output) :
        IsResultLine(scan_output[i]) /\ NameOf(scan_output[i]) = name}

\* C28: after the extraction the context holds, for every name, the value of
\* the last line RESULT: name = value of the output (split at the first '='
\* after the marker, both sides trimmed), and the value from before for a
\* name no line assigns; lines without the marker or without an '=' after it
\* change nothing.
C28_ContextExtraction ==
    scan_pc = "returned" =>
        /\ DOMAIN scan_context =
               DOMAIN scan_before
               \cup {NameOf(scan_output[i]) :
                        i \in {k \in 1..Len(scan_output) : IsResultLine(scan_output[k])}}
        /\ \A name \in DOMAIN scan_context :
              IF AssigningLines(name) = {}
              THEN scan_context[name] = scan_before[name]
              ELSE LET last == CHOOSE i \in AssigningLines(name) :
                                   \A k \in AssigningLines(name) : i >= k
                   IN  scan_context[name] = ValueOf(scan_output[last])
        /\ (\A i \in 1..Len(scan_output) : ~IsResultLine(scan_output[i])) =>
              scan_context = scan_before

\* a value from before, a line that overwrites it, a line without '=' and a
\* later line for the same name: the last value stands, trimmed
C28_Witness ==
    /\ scan_pc = "returned"
    /\ scan_before = [n \in {<<"price">>} |-> <<"1">>]
    /\ scan_output = <<LineResult, LineNoEquals, LineResultAgain>>
    /\ scan_context = [n \in {<<"price">>} |-> <<"200">>]

\* C25: on the sequential path the tasks are taken in the order of the
\* decomposition list, one per pass: every pass appends one result, for the
\* task at the position of the pass, and leaves the earlier results as they
\* are; after the loop there is one result per task, the i-th for the i-th
\* task, whether its generation succeeded or failed, and the i-th generation
\* call carried the prompt of the i-th task.
C25_TasksInListOrder ==
    /\ [][ (task_results' # task_results /\ task_results' # <<>>) =>
             ( /\ pc = "task_loop"
               /\ task_i = Len(task_results) + 1
               /\ task_i' = task_i + 1
               /\ Len(task_results') = Len(task_results) + 1
               /\ SubSeq(task_results', 1, Len(task_results)) = task_results
               /\ task_results'[task_i].task = tasks[task_i]
               /\ tasks' = tasks ) ]_vars
    /\ [](pc \in {"finalize", "final_exec"} =>
             /\ Len(task_results) = Len(tasks)
             /\ Len(TaskGenerations) = Len(tasks)
             /\ \A k \in 1..Len(tasks) :
                   /\ task_results[k].task = tasks[k]
                   /\ TaskGenerations[k].depth = k
                   /\ TaskGenerations[k].prompt = build_task_prompt(tasks[k])
                   /\ task_results[k].success = (TaskGenerations[k].reply # EmptyCode))

\* two different tasks, the first failed and the second generated code
C25_Witness ==
    /\ pc = "finalize"
    /\ Len(tasks) = 2
    /\ tasks[1] # tasks[2]
    /\ Len(task_results) = 2
    /\ ~task_results[1].success
    /\ task_results[2].success
    /\ task_results[1].task = tasks[1]
    /\ task_results[2].task = tasks[2]

\* the model call for the initial code handed back nothing (it raised, or
\* nothing was left of its reply)
InitialGenerationFailed(e) == e.ev = "llm_generate" /\ e.reply = EmptyCode

\* C26: when the generation of the initial code fails, generate_and_execute
\* returns at once a failed result with empty code, depth 0 and the
\* generation error: no sandbox execution is started, no revision is
\* requested, and the fix trail and the hash set stay empty.
C26_GenerationFailureReturns ==
    \A i \in 1..Len(log) :
        InitialGenerationFailed(log[i]) =>
            /\ i = Len(log)
            /\ ChainOver
            /\ Len(Execs) = 0
            /\ Len(FixRequests) = 0
            /\ fix_history = <<>>
            /\ code_hashes = {}
            /\ ControllerReturned =>
                  /\ ~result.success
                  /\ result.code = EmptyCode
                  /\ result.fix_attempts = 0
                  /\ result.output = <<>>
                  /\ result.error = <<Part("Failed to generate initial code", 0)>>
            /\ pc = "returned" => ~response.success

C26_Witness ==
    /\ ControllerReturned
    /\ InitialGenerationFailed(log[Len(log)])
    /\ ~result.success
    /\ result.code = EmptyCode
    /\ Len(Execs) = 0

\* a line of explanation, not of code
IsProse(txt) == txt \in {LineHereColon, LineHereMore, LineBelow, LineLongPython}

\* C29: the text _clean_code hands on holds no line that starts with a
\* conversational filler phrase, and no line of prose before its first line
\* that starts with a statement opener.
C29_NoProseHandedOn ==
    clean_pc = "returned" =>
        /\ \A k \in 1..Len(clean_result) :
              ~starts_with_skip_phrase(clean_result[k].txt)
        /\ \A k \in 1..Len(clean_result) :
              IsProse(clean_result[k].txt) =>
                  \E m \in 1..(k - 1) :
                      starts_with_code_indicator(clean_result[m].txt)

\* C30: an execution is reported as succeeded exactly when the child exited
\* with code 0 and its stdout holds no error marker; when the wrapper caught
\* an exception (the marker is in stdout) the result is a failure whose error
\* text is the marker line without the marker, and not empty; a timeout is a
\* failure with the timeout flag set and empty output.
C30_SandboxVerdict ==
    (sandbox_pc \in {"finally", "returned"} /\ sandbox_outcome # NoResult) =>
        LET o == sandbox_outcome
            r == sandbox_result
        IN  /\ r.success <=>
                  (o.kind = "exit" /\ o.rc = 0 /\ ~HasErrorMarker(o.stdout))
            /\ (o.kind = "exit" /\ HasErrorMarker(o.stdout)) =>
                  /\ ~r.success
                  /\ r.error # <<>>
                  /\ r.error = FirstErrorLine(o.stdout)
            /\ o.kind = "timeout" =>
                  /\ ~r.success
                  /\ r.timeout
                  /\ r.output = <<>>

\* C31: a request that ends in failure (a unified run that failed after its
\* repairs, no task with code, a failed merge, a failed run of the merged
\* code) leaves the context store as it was when the request came in: the
\* step that returns the failure does not write it, and no step before the
\* return does; a request classified as chat returns at once, with the
\* context store untouched and no code executed.
C31_FailedOrChatRequestKeepsContext ==
    [][ /\ (pc' = "returned" /\ ~response'.success) => context' = context
        /\ pc' # "returned" => context' = context
        /\ (pc' = "returned" /\ response'.type = "chat") =>
              /\ pc \in {"idle", "returned"}
              /\ context' = context
              /\ \A i \in 1..Len(log') :
                    log'[i].ev \notin {"exec", "final_exec"}
      ]_vars

\* a request has failed on its last execution, whose output holds a result
\* line, while the context store holds a variable of an earlier request
C31_Witness ==
    /\ pc = "returned"
    /\ ~response.success
    /\ DOMAIN context # {}
    /\ log[Len(log)].ev \in {"exec", "final_exec"}
    /\ ~log[Len(log)].out.success
    /\ \E k \in 1..Len(log[Len(log)].out.output) :
          HasToken(log[Len(log)].out.output[k], RESULT_MARKER)

====
